---- MODULE Spec2Model ----
(***************************************************************************)
(* Model of recorder/transcribe_recorder.py: two channel transcription     *)
(* workers (mic, system) on one asyncio event loop, the shared             *)
(* transcription buffer under transcription_lock, the readiness gate       *)
(* (recording_ready / streams_ready), the periodic API sender thread and   *)
(* the recording_loop supervisor driven by the start/pause/quit commands.  *)
(***************************************************************************)
EXTENDS Integers, Sequences, FiniteSets, TLC

\* ------------------------------------------------------------------ bounds
\* Fragments stamped over a whole run of the process.
MaxFrags == 2
\* Payloads handed to the delivery sink over a whole run.
MaxWindows == 2
\* The wall clock runs from 0 to MaxPeriods dispatch periods.
MaxPeriods == 1
\* One tick finds up to MaxExtra fragments more than a window holds.
MaxExtra == 2
\* A result of the service carries up to MaxAlts alternatives.
MaxAlts == 2

\* ------------------------------------------------------- program constants
REC_SECONDS == 15
\* all_transcriptions[-10:]
WINDOW_TURNS == 10
\* datetime.isoformat() writes "." before the microseconds, the code adds "Z"
DOT == 46
ZED == 90
MICROS == 1000000
\* the one sub-second reading of the clock the model samples, in microseconds
HALF == MICROS \div 2

Channels == {"mic", "system"}

\* speaker of a channel's fragments in a window
Speaker(c) == IF c = "mic" THEN "agent" ELSE "customer"

\* CALL_ID = str(uuid.uuid4()): some identifier, fixed at import
CallIds == {"uuid-a"}

\* ------------------------------------------------------------- timestamps
\* An instant is [sec, micro].  datetime.isoformat() writes the date and time
\* to the second in fixed-width fields (one token here), then "." and six
\* digits of microseconds ONLY when the microseconds are not zero; the code
\* appends "Z".  A string is the sequence of its tokens.
Isoformat(t) ==
  IF t.micro = 0 THEN <<t.sec, ZED>> ELSE <<t.sec, DOT, t.micro, ZED>>

\* Python's str comparison: lexicographic, a proper prefix is smaller.
StrLess(a, b) ==
  \/ \E i \in 1..Len(a) :
       /\ i <= Len(b)
       /\ \A j \in 1..(i - 1) : a[j] = b[j]
       /\ a[i] < b[i]
  \/ /\ Len(a) < Len(b)
     /\ \A j \in 1..Len(a) : a[j] = b[j]

\* The instant a timestamp string was made from.
InstantOf(s) ==
  IF Len(s) = 2 THEN [sec |-> s[1], micro |-> 0]
                ELSE [sec |-> s[1], micro |-> s[3]]

\* t1 is strictly before t2
Before(t1, t2) ==
  t1.sec < t2.sec \/ (t1.sec = t2.sec /\ t1.micro < t2.micro)

\* microseconds from t1 to t2
Elapsed(t1, t2) == (t2.sec - t1.sec) * MICROS + (t2.micro - t1.micro)

\* The clock is sampled at the whole dispatch periods and half a second
\* after each of them.
MaxTime == MaxPeriods * REC_SECONDS

NextInstant(t) ==
  IF t.micro = 0 THEN [sec |-> t.sec, micro |-> HALF]
                 ELSE [sec |-> t.sec + REC_SECONDS, micro |-> 0]

AddSeconds(t, n) == [sec |-> t.sec + n, micro |-> t.micro]

\* ------------------------------------------------- the window of one tick
\* list.sort(key=timestamp): stable, by the timestamp STRINGS.
RECURSIVE InsertTurn(_, _)
InsertTurn(sorted, x) ==
  IF sorted = <<>> THEN <<x>>
  ELSE IF StrLess(x.timestamp, sorted[Len(sorted)].timestamp)
       THEN Append(InsertTurn(SubSeq(sorted, 1, Len(sorted) - 1), x),
                   sorted[Len(sorted)])
       ELSE Append(sorted, x)

RECURSIVE SortTurns(_)
SortTurns(s) ==
  IF s = <<>> THEN <<>>
  ELSE InsertTurn(SortTurns(SubSeq(s, 1, Len(s) - 1)), s[Len(s)])

\* one buffer entry as a turn of the given speaker
Turn(c, e) ==
  [speaker |-> Speaker(c), transcript |-> e.text, timestamp |-> e.timestamp]

TurnsOf(c, entries) == [i \in 1..Len(entries) |-> Turn(c, entries[i])]

\* mic entries as agent, then system entries as customer, then the sort
AllTranscriptions(buf) ==
  SortTurns(TurnsOf("mic", buf["mic"]) \o TurnsOf("system", buf["system"]))

\* all_transcriptions[-10:] if len(all_transcriptions) > 10 else all
RecentTranscriptions(all) ==
  IF Len(all) > WINDOW_TURNS
    THEN SubSeq(all, Len(all) - WINDOW_TURNS + 1, Len(all))
    ELSE all

EmptyBuffer == [c \in Channels |-> <<>>]

Texts(turns) == {turns[i].transcript : i \in 1..Len(turns)}
BufferTexts(buf) == UNION {{buf[c][i].text : i \in 1..Len(buf[c])} : c \in Channels}

\* ------------------------------------------------------------------ state
VARIABLES
  running,              \* threading.Event set by "s", cleared by "p"
  stop,                 \* threading.Event set by "q"
  CALL_ID,              \* module constant, drawn once at import
  now,                  \* the wall clock, an instant
  timed,                \* durations are modelled (SpecTimed) or any (Spec)
  looppc,               \* recording_loop: "top" | "reset" | "await" |
                        \*                 "cancel" | "sleep" | "done"
  wpc,                  \* start_transcription per channel:
                        \*   "off" | "init" | "run" | "done"
  writepc,              \* write_chunks task: "none" | "first" | "more" |
                        \*                    "ended" | "failed"
  handlerpc,            \* handler task: "none" | "idle" | "stamped" |
                        \*               "locked" | "ended"
  pending,              \* the entry a handler is about to append
  transcription_buffer, \* channel -> sequence of [timestamp, text]
  transcription_lock,   \* "free" | "mic" | "system" | "sender"
  recording_ready,      \* threading.Event
  streams_ready,        \* channel -> BOOLEAN
  senderpc,             \* send_api_requests_periodically: "wait" | "sleep" |
                        \*   "clear" | "decide" | "post"
  wake,                 \* instant the sender's time.sleep ends
  postStart,            \* instant the latest requests.post began
  all_transcriptions,   \* the sender's locals
  recent_transcriptions,
  window_counter,
  sent,                 \* payloads handed to requests.post, in order
  response,             \* outcome of the latest requests.post
  proc,                 \* channel -> the ffmpeg process of the session's
                        \*   audio source: "none" | "running"
  input_stream,         \* channel -> the session's stream to the service:
                        \*   "none" | "open" | "ended" (end_stream sent)
  todo,                 \* channel -> alternatives with text the handler has
                        \*   still to append for the result it is in
  exited,               \* main() has returned: the process is over
  \* ---- history, read by the properties only
  nextText,             \* next fresh fragment text
  drainCount,           \* text -> number of drains that returned it
  sinceLock,            \* texts appended since the sender last took the lock
  fireCount,            \* un-fired -> fired transitions in this session
  everFired,            \* the gate has fired at least once
  slept,                \* instant the sender's latest time.sleep began
  timedOut,             \* in this session the wait_for(300) of one worker
                        \*   expired while the other worker was healthy
  resultFrags           \* channel -> fragments the handler has appended
                        \*   for the result it is in

progVars == <<running, stop, CALL_ID, now, timed, looppc, wpc, writepc, handlerpc,
              pending, transcription_buffer, transcription_lock,
              recording_ready, streams_ready, senderpc, wake, postStart,
              all_transcriptions, recent_transcriptions, window_counter,
              sent, response, proc, input_stream, todo, exited>>
histVars == <<nextText, drainCount, sinceLock, fireCount, everFired, slept,
              timedOut, resultFrags>>
vars == <<progVars, histVars>>

TextIds == 1..MaxFrags
Zero == [sec |-> 0, micro |-> 0]
NoEntry == [timestamp |-> <<>>, text |-> 0]
NoResponse == [raised |-> FALSE, status_code |-> 0]

\* what module import and main() leave behind, but for the buffer and the
\* sender's position
InitRest ==
  /\ stop = FALSE
  /\ CALL_ID \in CallIds
  /\ now = Zero
  /\ looppc = "top"
  /\ wpc = [c \in Channels |-> "off"]
  /\ writepc = [c \in Channels |-> "none"]
  /\ handlerpc = [c \in Channels |-> "none"]
  /\ pending = [c \in Channels |-> NoEntry]
  /\ transcription_lock = "free"
  /\ streams_ready = [c \in Channels |-> FALSE]
  /\ wake = Zero
  /\ postStart = Zero
  /\ all_transcriptions = <<>>
  /\ recent_transcriptions = <<>>
  /\ window_counter = 0
  /\ sent = <<>>
  /\ response = NoResponse
  /\ drainCount = [t \in TextIds |-> 0]
  /\ sinceLock = {}
  /\ fireCount = 0
  /\ slept = Zero
  /\ proc = [c \in Channels |-> "none"]
  /\ input_stream = [c \in Channels |-> "none"]
  /\ todo = [c \in Channels |-> 0]
  /\ exited = FALSE
  /\ timedOut = FALSE
  /\ resultFrags = [c \in Channels |-> 0]

\* module import and main() up to the start of its two threads
Init ==
  /\ InitRest
  /\ timed = FALSE
  /\ running = FALSE
  /\ transcription_buffer = EmptyBuffer
  /\ recording_ready = FALSE
  /\ senderpc = "wait"
  /\ nextText = 1
  /\ everFired = FALSE

\* --------------------------------------------------------------- helpers
\* A handler between its timestamp and its append has not awaited: no other
\* task of the event loop runs until it has released the lock.
EventLoopFree == \A c \in Channels : handlerpc[c] \notin {"stamped", "locked"}

\* variant: the handler appends without waiting for the lock
LockAvailable_Ignored == TRUE

\* threading.Lock: `with transcription_lock` enters only when nobody holds it
LockAvailable == transcription_lock = "free"

\* variant: any() in place of all()
AllReady_Any(ready) == \E c \in Channels : ready[c]

\* all(streams_ready.values())
AllReady(ready) == \A c \in Channels : ready[c]

\* variant: the window is sent whatever it holds
ShouldSend_Always(recent) == TRUE

\* if recent_transcriptions:
ShouldSend(recent) == recent # <<>>

\* The instant a wait of n seconds that begins now is over, and the instant
\* a request begins at.  Where durations are not modelled a wait ends at any
\* time and both stay as they are.
\* variant: the sleep lasts two periods
Deadline_Double(n) == IF timed THEN AddSeconds(now, 2 * n) ELSE wake

Deadline(n) == IF timed THEN AddSeconds(now, n) ELSE wake
Started == IF timed THEN now ELSE postStart

\* variant: a sleep begins only while the gate is fired
BeginSleep_Regate ==
  /\ senderpc' = IF recording_ready THEN "sleep" ELSE "wait"
  /\ wake' = Deadline(REC_SECONDS)
  /\ slept' = Started

\* the sender's next time.sleep(REC_SECONDS) begins
BeginSleep ==
  /\ senderpc' = "sleep"
  /\ wake' = Deadline(REC_SECONDS)
  /\ slept' = Started

\* ------------------------------------------------------------- main thread
mainFrame == <<CALL_ID, now, timed, looppc, wpc, writepc, handlerpc, pending,
               transcription_buffer, transcription_lock, recording_ready,
               streams_ready, senderpc, wake, postStart, all_transcriptions,
               recent_transcriptions, window_counter, sent, response,
               proc, input_stream, todo, histVars>>

\* "s": running.set()
CmdStart ==
  /\ ~exited
  /\ ~stop
  /\ running' = TRUE
  /\ UNCHANGED <<stop, exited, mainFrame>>

\* variant: the pause ends the session that is active
CmdPause_EndsSession ==
  /\ ~exited
  /\ ~stop
  /\ running' = FALSE
  /\ IF looppc = "await"
       THEN /\ wpc' = [c \in Channels |-> "done"]
            /\ writepc' = [c \in Channels |-> "none"]
            /\ handlerpc' = [c \in Channels |-> "none"]
            /\ transcription_lock' =
                 IF transcription_lock \in Channels THEN "free"
                 ELSE transcription_lock
       ELSE UNCHANGED <<wpc, writepc, handlerpc, transcription_lock>>
  /\ UNCHANGED <<stop, exited, CALL_ID, now, timed, looppc, pending,
                 transcription_buffer, recording_ready, streams_ready,
                 senderpc, wake, postStart, all_transcriptions,
                 recent_transcriptions, window_counter, sent, response, proc,
                 input_stream, todo, histVars>>

\* "p": running.clear()
CmdPause ==
  /\ ~exited
  /\ ~stop
  /\ running' = FALSE
  /\ UNCHANGED <<stop, exited, mainFrame>>

\* "q": stop.set(); the while loop of main() reads no further command
CmdQuit ==
  /\ ~exited
  /\ ~stop
  /\ stop' = TRUE
  /\ UNCHANGED <<running, exited, mainFrame>>

\* the while loop of main() has ended on stop: dump_log(), main() returns and
\* the process is over; its two daemon threads end where they are
MainExit ==
  /\ stop
  /\ ~exited
  /\ exited' = TRUE
  /\ UNCHANGED <<running, stop, mainFrame>>

\* ---------------------------------------------------------- recording_loop
loopFrame == <<running, stop, CALL_ID, now, timed, pending, transcription_buffer,
               transcription_lock, senderpc, wake, postStart,
               all_transcriptions, recent_transcriptions, window_counter,
               sent, response, nextText, drainCount, sinceLock, everFired,
               slept, todo, exited, resultFrags>>

\* variant: a session is started whether running is set or not
LoopTest_IgnoreRunning ==
  /\ ~exited
  /\ EventLoopFree
  /\ looppc = "top"
  /\ IF ~stop
       THEN /\ looppc' = "reset"
            /\ recording_ready' = FALSE
            /\ fireCount' = 0
       ELSE /\ looppc' = "done"
            /\ UNCHANGED <<recording_ready, fireCount>>
  /\ UNCHANGED <<loopFrame, wpc, writepc, handlerpc, streams_ready, proc,
                 input_stream, timedOut>>

\* while not stop_evt.is_set(): if running_evt.is_set(): ...
\* recording_ready.clear()
LoopTest ==
  /\ ~exited
  /\ EventLoopFree
  /\ looppc = "top"
  /\ IF ~stop /\ running
       THEN /\ looppc' = "reset"
            /\ recording_ready' = FALSE
            /\ fireCount' = 0
       ELSE /\ looppc' = IF stop THEN "done" ELSE "sleep"
            /\ UNCHANGED <<recording_ready, fireCount>>
  /\ UNCHANGED <<loopFrame, wpc, writepc, handlerpc, streams_ready, proc,
                 input_stream, timedOut>>

\* streams_ready[...] = False, then gather(start_transcription x 2)
LoopLaunch ==
  /\ ~exited
  /\ EventLoopFree
  /\ looppc = "reset"
  /\ streams_ready' = [c \in Channels |-> FALSE]
  /\ wpc' = [c \in Channels |-> "init"]
  /\ looppc' = "await"
  /\ UNCHANGED <<loopFrame, writepc, handlerpc, recording_ready, fireCount,
                 proc, input_stream, timedOut>>

\* variant: the loop ends with the session
LoopJoin_Exit ==
  /\ ~exited
  /\ EventLoopFree
  /\ looppc \in {"await", "cancel"}
  /\ \A c \in Channels : wpc[c] = "done"
  /\ wpc' = [c \in Channels |-> "off"]
  /\ proc' = [c \in Channels |-> "none"]
  /\ input_stream' = [c \in Channels |-> "none"]
  /\ looppc' = "done"
  /\ timedOut' = FALSE
  /\ UNCHANGED <<loopFrame, writepc, handlerpc, recording_ready,
                 streams_ready, fireCount>>

\* the gather of both workers has finished (after a timeout: TimeoutError
\* is logged); the session's streams and sources are out of scope; then
\* await asyncio.sleep(0.5)
LoopJoin ==
  /\ ~exited
  /\ EventLoopFree
  /\ looppc \in {"await", "cancel"}
  /\ \A c \in Channels : wpc[c] = "done"
  /\ wpc' = [c \in Channels |-> "off"]
  /\ proc' = [c \in Channels |-> "none"]
  /\ input_stream' = [c \in Channels |-> "none"]
  /\ looppc' = "sleep"
  /\ timedOut' = FALSE
  /\ UNCHANGED <<loopFrame, writepc, handlerpc, recording_ready,
                 streams_ready, fireCount>>

\* variant: the timeout ends the loop
LoopTimeout_Exit ==
  /\ ~exited
  /\ EventLoopFree
  /\ looppc = "await"
  /\ \E c \in Channels : wpc[c] # "done"
  /\ wpc' = [c \in Channels |-> "done"]
  /\ writepc' = [c \in Channels |-> "none"]
  /\ handlerpc' = [c \in Channels |-> "none"]
  /\ looppc' = "done"
  /\ UNCHANGED <<loopFrame, recording_ready, streams_ready, fireCount, proc,
                 input_stream, timedOut>>

\* wait_for(..., timeout=600.0) expires: the gather is cancelled, and with
\* it each worker that has not finished: in its setup it is ended by the
\* CancelledError, awaiting its tasks it catches it and cancels them.
LoopTimeout ==
  /\ ~exited
  /\ EventLoopFree
  /\ looppc = "await"
  /\ \E c \in Channels : wpc[c] # "done"
  /\ wpc' = [c \in Channels |-> "done"]
  /\ writepc' = [c \in Channels |-> "none"]
  /\ handlerpc' = [c \in Channels |-> "none"]
  /\ looppc' = "cancel"
  /\ UNCHANGED <<loopFrame, recording_ready, streams_ready, fireCount, proc,
                 input_stream, timedOut>>

\* await asyncio.sleep(0.5) at the end of an iteration
LoopSleep ==
  /\ ~exited
  /\ EventLoopFree
  /\ looppc = "sleep"
  /\ looppc' = "top"
  /\ UNCHANGED <<loopFrame, wpc, writepc, handlerpc, recording_ready,
                 streams_ready, fireCount, proc, input_stream, timedOut>>


\* ------------------------------------------------------ start_transcription
workerFrame == <<running, stop, CALL_ID, now, timed, looppc, senderpc, wake,
                 postStart, all_transcriptions, recent_transcriptions,
                 window_counter, sent, response, drainCount, slept, exited>>

\* what the handler of a channel works on
handlerFrame == <<pending, todo, nextText, resultFrags, sinceLock,
                  transcription_buffer, transcription_lock>>

gateFrame == <<recording_ready, streams_ready, fireCount, everFired>>

\* credentials, client and start_stream_transcription succeeded; the handler
\* and write_chunks tasks are created
WorkerInitOk(c) ==
  /\ ~exited
  /\ EventLoopFree
  /\ wpc[c] = "init"
  /\ wpc' = [wpc EXCEPT ![c] = "run"]
  /\ writepc' = [writepc EXCEPT ![c] = "first"]
  /\ handlerpc' = [handlerpc EXCEPT ![c] = "idle"]
  /\ input_stream' = [input_stream EXCEPT ![c] = "open"]
  /\ proc' = [proc EXCEPT ![c] = "none"]
  /\ UNCHANGED <<workerFrame, handlerFrame, gateFrame, timedOut>>

\* an exception of the setup is caught by the outer except (line 286)
WorkerInitFail(c) ==
  /\ ~exited
  /\ EventLoopFree
  /\ wpc[c] = "init"
  /\ wpc' = [wpc EXCEPT ![c] = "done"]
  /\ UNCHANGED <<workerFrame, handlerFrame, gateFrame, writepc, handlerpc,
                 proc, input_stream, timedOut>>

\* write_chunks, one chunk of the audio source (the first one is read from
\* the ffmpeg process the source has started): the first one marks the
\* channel ready and sets recording_ready when both channels are and the
\* event is not set yet
WriteChunk(c) ==
  /\ ~exited
  /\ EventLoopFree
  /\ wpc[c] = "run"
  /\ writepc[c] \in {"first", "more"}
  /\ IF writepc[c] = "first"
       THEN LET ready == [streams_ready EXCEPT ![c] = TRUE]
                fires == AllReady(ready) /\ ~recording_ready
            IN /\ streams_ready' = ready
               /\ recording_ready' = (recording_ready \/ AllReady(ready))
               /\ fireCount' = IF fires THEN fireCount + 1 ELSE fireCount
               /\ everFired' = (everFired \/ fires)
       ELSE UNCHANGED gateFrame
  /\ writepc' = [writepc EXCEPT ![c] = "more"]
  /\ proc' = [proc EXCEPT ![c] = "running"]
  /\ UNCHANGED <<workerFrame, handlerFrame, wpc, handlerpc, input_stream,
                 timedOut>>

\* the source has no more chunks: its generator ends through its `finally`
\* (proc.terminate(), proc.wait()), then stream.input_stream.end_stream()
WriteEnd(c) ==
  /\ ~exited
  /\ EventLoopFree
  /\ wpc[c] = "run"
  /\ writepc[c] \in {"first", "more"}
  /\ writepc' = [writepc EXCEPT ![c] = "ended"]
  /\ proc' = [proc EXCEPT ![c] = "none"]
  /\ input_stream' = [input_stream EXCEPT ![c] = "ended"]
  /\ UNCHANGED <<workerFrame, handlerFrame, gateFrame, wpc, handlerpc,
                 timedOut>>

\* What an exception in write_chunks leaves of the source's process: Popen
\* raised, or end_stream raised after the source had ended, and there is
\* none; send_audio_event raised and the generator is left suspended at its
\* yield, its process running.
FailedProc(pc) == IF pc = "first" THEN {"none"} ELSE {"none", "running"}

\* variant: the exception is not caught; it ends the worker and, through the
\* gather, the supervisor's wait
WriteFail_Propagates(c) ==
  /\ ~exited
  /\ EventLoopFree
  /\ wpc[c] = "run"
  /\ writepc[c] \in {"first", "more"}
  /\ writepc' = [o \in Channels |-> IF o = c THEN "failed" ELSE "none"]
  /\ handlerpc' = [o \in Channels |-> "none"]
  /\ wpc' = [o \in Channels |-> "done"]
  /\ \E p \in FailedProc(writepc[c]) : proc' = [proc EXCEPT ![c] = p]
  /\ UNCHANGED <<workerFrame, handlerFrame, gateFrame, input_stream,
                 timedOut>>

\* an exception in the send path: logged by write_chunks (line 252), which
\* then returns; end_stream has not been sent
WriteFail(c) ==
  /\ ~exited
  /\ EventLoopFree
  /\ wpc[c] = "run"
  /\ writepc[c] \in {"first", "more"}
  /\ writepc' = [writepc EXCEPT ![c] = "failed"]
  /\ \E p \in FailedProc(writepc[c]) : proc' = [proc EXCEPT ![c] = p]
  /\ UNCHANGED <<workerFrame, handlerFrame, gateFrame, wpc, handlerpc,
                 input_stream, timedOut>>

\* A source generator that write_chunks has left suspended is closed when
\* it is collected: the event loop's hook runs aclose(), and with it the
\* generator's `finally`.  When that happens is up to the collector.
SourceFinalize(c) ==
  /\ ~exited
  /\ EventLoopFree
  /\ proc[c] = "running"
  /\ writepc[c] \notin {"first", "more"}
  /\ proc' = [proc EXCEPT ![c] = "none"]
  /\ UNCHANGED <<workerFrame, handlerFrame, gateFrame, wpc, writepc,
                 handlerpc, input_stream, timedOut>>

\* One result of an event: is_partial, and for each of its alternatives
\* whether its transcript is blank.
RECURSIVE AltLists(_)
AltLists(n) ==
  IF n = 0 THEN {<<>>}
  ELSE LET shorter == AltLists(n - 1)
       IN shorter \cup {Append(a, b) : a \in shorter, b \in BOOLEAN}

Results ==
  {[is_partial |-> p, blank |-> a] : p \in BOOLEAN, a \in AltLists(MaxAlts)}

\* the alternatives of a result the handler appends a fragment for (line 90)
WithText(result) ==
  IF result.is_partial THEN 0
  ELSE Cardinality({i \in 1..Len(result.blank) : ~result.blank[i]})

\* the entry made at line 91 for the next fresh text
Stamped == [timestamp |-> Isoformat(now), text |-> nextText]

\* handle_transcript_event for one result: the first alternative of a final
\* result with non-blank text takes its timestamp (line 91); a result
\* without such an alternative adds nothing
HandleTranscriptEvent(c, result) ==
  /\ ~exited
  /\ EventLoopFree
  /\ wpc[c] = "run"
  /\ handlerpc[c] = "idle"
  /\ writepc[c] # "first"
  /\ IF WithText(result) > 0
       THEN /\ nextText + WithText(result) - 1 <= MaxFrags
            /\ pending' = [pending EXCEPT ![c] = Stamped]
            /\ nextText' = nextText + 1
            /\ todo' = [todo EXCEPT ![c] = WithText(result) - 1]
            /\ handlerpc' = [handlerpc EXCEPT ![c] = "stamped"]
       ELSE UNCHANGED <<pending, nextText, todo, handlerpc>>
  /\ UNCHANGED <<workerFrame, gateFrame, wpc, writepc, sinceLock, resultFrags,
                 transcription_buffer, transcription_lock, proc, input_stream,
                 timedOut>>

\* with transcription_lock:
HandlerLock(c) ==
  /\ ~exited
  /\ handlerpc[c] = "stamped"
  /\ LockAvailable
  /\ transcription_lock' = c
  /\ handlerpc' = [handlerpc EXCEPT ![c] = "locked"]
  /\ UNCHANGED <<workerFrame, gateFrame, wpc, writepc, pending, todo,
                 nextText, resultFrags, sinceLock, transcription_buffer, proc,
                 input_stream, timedOut>>

\* transcription_buffer[channel].append(...), then the lock is released; the
\* loop over the alternatives goes on to the next one with text, which takes
\* its timestamp, or the handler is done with the result
HandlerAppend(c) ==
  /\ ~exited
  /\ handlerpc[c] = "locked"
  /\ transcription_buffer' = [transcription_buffer EXCEPT
       ![c] = Append(@, pending[c])]
  /\ transcription_lock' = "free"
  /\ sinceLock' = sinceLock \cup {pending[c].text}
  /\ IF todo[c] > 0
       THEN /\ pending' = [pending EXCEPT ![c] = Stamped]
            /\ nextText' = nextText + 1
            /\ todo' = [todo EXCEPT ![c] = @ - 1]
            /\ resultFrags' = [resultFrags EXCEPT ![c] = @ + 1]
            /\ handlerpc' = [handlerpc EXCEPT ![c] = "stamped"]
       ELSE /\ pending' = [pending EXCEPT ![c] = NoEntry]
            /\ resultFrags' = [resultFrags EXCEPT ![c] = 0]
            /\ handlerpc' = [handlerpc EXCEPT ![c] = "idle"]
            /\ UNCHANGED <<nextText, todo>>
  /\ UNCHANGED <<workerFrame, gateFrame, wpc, writepc, proc, input_stream,
                 timedOut>>

\* the service closes the result stream after end_stream: handle_events ends
HandlerEnd(c) ==
  /\ ~exited
  /\ EventLoopFree
  /\ wpc[c] = "run"
  /\ handlerpc[c] = "idle"
  /\ writepc[c] = "ended"
  /\ handlerpc' = [handlerpc EXCEPT ![c] = "ended"]
  /\ UNCHANGED <<workerFrame, handlerFrame, gateFrame, wpc, writepc, proc,
                 input_stream, timedOut>>

\* The worker's session ends: its tasks are done or cancelled in `finally`
\* (lines 273-280), and after the final sleep(0.5) start_transcription
\* returns.  Nothing closes the source or the stream here.
EndWorker(c) ==
  /\ wpc' = [wpc EXCEPT ![c] = "done"]
  /\ writepc' = [writepc EXCEPT ![c] = "none"]
  /\ handlerpc' = [handlerpc EXCEPT ![c] = "none"]
  /\ UNCHANGED <<workerFrame, handlerFrame, gateFrame, proc, input_stream>>

\* both tasks have returned: the gather completes
WorkerJoin(c) ==
  /\ ~exited
  /\ EventLoopFree
  /\ wpc[c] = "run"
  /\ handlerpc[c] = "ended"
  /\ writepc[c] \in {"ended", "failed"}
  /\ EndWorker(c)
  /\ UNCHANGED timedOut

\* the service raises in handle_events: the gather raises, `except Exception
\* as task_error`, finally: write_task.cancel()
WorkerTaskError(c) ==
  /\ ~exited
  /\ EventLoopFree
  /\ wpc[c] = "run"
  /\ handlerpc[c] = "idle"
  /\ EndWorker(c)
  /\ UNCHANGED timedOut

\* the other worker is in its session with both its tasks at work
Healthy(c) ==
  /\ wpc[c] = "run"
  /\ writepc[c] \in {"first", "more"}
  /\ handlerpc[c] = "idle"

\* variant: the timeout takes effect in the middle of the handler
WorkerTimeout_Anytime(c) ==
  /\ ~exited
  /\ wpc[c] = "run"
  /\ EndWorker(c)
  /\ timedOut' = (timedOut \/ \E o \in Channels \ {c} : Healthy(o))

\* wait_for(..., timeout=300.0) expires: both tasks are cancelled
WorkerTimeout(c) ==
  /\ ~exited
  /\ EventLoopFree
  /\ wpc[c] = "run"
  /\ EndWorker(c)
  /\ timedOut' = (timedOut \/ \E o \in Channels \ {c} : Healthy(o))

\* ------------------------------------------ send_api_requests_periodically
senderFrame == <<running, stop, CALL_ID, now, timed, looppc, wpc, writepc,
                 handlerpc, pending, recording_ready, streams_ready,
                 nextText, fireCount, everFired, proc, input_stream, todo,
                 exited, timedOut, resultFrags>>

\* variant: the payload takes the counter as it was before the increment
Payload_Stale(turns, n) ==
  [call_id |-> CALL_ID, window_num |-> n - 1, turns |-> turns]

Payload(turns, n) == [call_id |-> CALL_ID, window_num |-> n, turns |-> turns]

\* variant: the loop starts without recording_ready.wait()
SenderReady_NoWait ==
  /\ ~exited
  /\ senderpc = "wait"
  /\ BeginSleep
  /\ UNCHANGED <<senderFrame, transcription_buffer, transcription_lock,
                 postStart, all_transcriptions, recent_transcriptions,
                 window_counter, sent, response, drainCount, sinceLock>>

\* variant: the wait returns only while the event is set
SenderReady_Level ==
  /\ ~exited
  /\ senderpc = "wait"
  /\ recording_ready
  /\ BeginSleep
  /\ UNCHANGED <<senderFrame, transcription_buffer, transcription_lock,
                 postStart, all_transcriptions, recent_transcriptions,
                 window_counter, sent, response, drainCount, sinceLock>>

\* The sender thread is started first and blocks in recording_ready.wait()
\* long before a session can fire the gate.  Event.set() releases a thread
\* that is blocked in wait(): its wait() returns True without looking at the
\* flag again, also when recording_loop has cleared the event in between.
Signaled == everFired

\* recording_ready.wait() returns; the first time.sleep(REC_SECONDS) begins
SenderReady ==
  /\ ~exited
  /\ senderpc = "wait"
  /\ Signaled
  /\ BeginSleep
  /\ UNCHANGED <<senderFrame, transcription_buffer, transcription_lock,
                 postStart, all_transcriptions, recent_transcriptions,
                 window_counter, sent, response, drainCount, sinceLock>>

\* time.sleep(REC_SECONDS) has returned and `with transcription_lock` is
\* entered; lines 310-337: both lists are read, merged, sorted and cut to the
\* last 10
SenderCapture ==
  /\ ~exited
  /\ senderpc = "sleep"
  /\ transcription_lock = "free"
  /\ transcription_lock' = "sender"
  /\ LET all == AllTranscriptions(transcription_buffer)
     IN /\ all_transcriptions' = all
        /\ recent_transcriptions' = RecentTranscriptions(all)
        /\ drainCount' = [t \in TextIds |->
             IF t \in Texts(all) THEN drainCount[t] + 1 ELSE drainCount[t]]
  /\ sinceLock' = {}
  /\ senderpc' = "clear"
  /\ UNCHANGED <<senderFrame, wake, slept, transcription_buffer, postStart,
                 window_counter, sent, response>>

\* variant: only the mic list is cleared
SenderClear_MicOnly ==
  /\ ~exited
  /\ senderpc = "clear"
  /\ transcription_buffer' = [transcription_buffer EXCEPT !["mic"] = <<>>]
  /\ transcription_lock' = "free"
  /\ senderpc' = "decide"
  /\ UNCHANGED <<senderFrame, wake, slept, postStart, all_transcriptions,
                 recent_transcriptions, window_counter, sent, response,
                 drainCount, sinceLock>>

\* variant: the `with` block is left without releasing the lock
SenderClear_KeepLock ==
  /\ ~exited
  /\ senderpc = "clear"
  /\ transcription_buffer' = EmptyBuffer
  /\ transcription_lock' = "sender"
  /\ senderpc' = "decide"
  /\ UNCHANGED <<senderFrame, wake, slept, postStart, all_transcriptions,
                 recent_transcriptions, window_counter, sent, response,
                 drainCount, sinceLock>>

\* lines 340-351: both lists are replaced by empty ones; the lock is released
SenderClear ==
  /\ ~exited
  /\ senderpc = "clear"
  /\ transcription_buffer' = EmptyBuffer
  /\ transcription_lock' = "free"
  /\ senderpc' = "decide"
  /\ UNCHANGED <<senderFrame, wake, slept, postStart, all_transcriptions,
                 recent_transcriptions, window_counter, sent, response,
                 drainCount, sinceLock>>

\* if recent_transcriptions: window_counter += 1, the payload is built and
\* requests.post is called; otherwise the next sleep begins
SenderDecide ==
  /\ ~exited
  /\ senderpc = "decide"
  /\ IF ShouldSend(recent_transcriptions)
       THEN /\ window_counter < MaxWindows
            /\ window_counter' = window_counter + 1
            /\ sent' = Append(sent,
                 Payload(recent_transcriptions, window_counter + 1))
            /\ postStart' = Started
            /\ senderpc' = "post"
            /\ UNCHANGED <<wake, slept>>
       ELSE /\ BeginSleep
            /\ UNCHANGED <<window_counter, sent, postStart>>
  /\ UNCHANGED <<senderFrame, transcription_buffer, transcription_lock,
                 all_transcriptions, recent_transcriptions, response,
                 drainCount, sinceLock>>

\* requests.post returns a status code or raises; a failure is logged and
\* the loop goes on to its next time.sleep
Outcomes ==
  {[raised |-> FALSE, status_code |-> 200],
   [raised |-> FALSE, status_code |-> 500],
   [raised |-> TRUE, status_code |-> 0]}

Failed(outcome) == outcome.raised \/ outcome.status_code # 200

\* variant: a failed delivery gives its window number back
SenderResponse_Rollback(outcome) ==
  /\ ~exited
  /\ senderpc = "post"
  /\ response' = outcome
  /\ BeginSleep
  /\ window_counter' =
       IF Failed(outcome) THEN window_counter - 1 ELSE window_counter
  /\ UNCHANGED <<senderFrame, transcription_buffer, transcription_lock,
                 postStart, all_transcriptions, recent_transcriptions,
                 sent, drainCount, sinceLock>>

SenderResponse(outcome) ==
  /\ ~exited
  /\ senderpc = "post"
  /\ response' = outcome
  /\ BeginSleep
  /\ UNCHANGED <<senderFrame, transcription_buffer, transcription_lock,
                 postStart, all_transcriptions, recent_transcriptions,
                 window_counter, sent, drainCount, sinceLock>>

\* ------------------------------------------------------------------- time
clockFrame == <<running, stop, CALL_ID, timed, looppc, wpc, writepc, handlerpc,
                pending, transcription_buffer, transcription_lock,
                recording_ready, streams_ready, senderpc, wake, postStart,
                all_transcriptions, recent_transcriptions, window_counter,
                sent, response, proc, input_stream, todo, exited, histVars>>

\* The clock is sampled up to half a second after the horizon.  Where
\* durations are not modelled its readings matter only through the order and
\* the format of the timestamps: two readings of one second are sampled.
Horizon == IF timed THEN MaxTime ELSE 0

ClockRuns == now.sec < Horizon \/ now.micro = 0

\* Only line 91 reads the clock: its advance is taken when a handler can
\* read it next.
ClockTick ==
  /\ ~exited
  /\ ClockRuns
  /\ \E c \in Channels : wpc[c] = "run" /\ handlerpc[c] = "idle"
  /\ nextText <= MaxFrags
  /\ now' = NextInstant(now)
  /\ UNCHANGED clockFrame

\* ------------------------------------------------------- the specification
MainThread == CmdStart \/ CmdPause \/ CmdQuit

RecordingLoop ==
  LoopTest \/ LoopLaunch \/ LoopJoin \/ LoopTimeout \/ LoopSleep

Worker(c) ==
  \/ WorkerInitOk(c) \/ WorkerInitFail(c)
  \/ WriteChunk(c) \/ WriteEnd(c) \/ WriteFail(c) \/ SourceFinalize(c)
  \/ (\E r \in Results : HandleTranscriptEvent(c, r))
  \/ HandlerLock(c) \/ HandlerAppend(c) \/ HandlerEnd(c)
  \/ WorkerJoin(c) \/ WorkerTaskError(c) \/ WorkerTimeout(c)

SenderTick ==
  \/ SenderClear \/ SenderDecide
  \/ (\E o \in Outcomes : SenderResponse(o))

Core ==
  \/ MainThread
  \/ RecordingLoop
  \/ (\E c \in Channels : Worker(c))
  \/ SenderReady
  \/ SenderTick

\* once the process is over none of its threads takes a step
Next == Core \/ SenderCapture \/ ClockTick \/ MainExit

Spec == Init /\ [][Next]_vars


\* ------------------------------------------------ the timed specification
\* time.sleep is given its duration: the sender wakes when its sleep is over,
\* a request takes any time, and steps that do not wait take no time.  The "s" command has been given and no other
\* command follows.
InitTimed ==
  /\ InitRest
  /\ timed = TRUE
  /\ running = TRUE
  /\ transcription_buffer = EmptyBuffer
  /\ recording_ready = FALSE
  /\ senderpc = "wait"
  /\ nextText = 1
  /\ everFired = FALSE

\* something is due at this instant: the clock does not pass it
Urgent ==
  \/ ~EventLoopFree
  \/ transcription_lock # "free"
  \/ senderpc \in {"clear", "decide"}
  \/ senderpc = "wait" /\ recording_ready
  \/ senderpc = "sleep" /\ ~Before(now, wake)

TimedTick ==
  /\ ClockRuns
  /\ ~Urgent
  /\ now' = NextInstant(now)
  /\ UNCHANGED clockFrame

TimedCapture ==
  /\ ~Before(now, wake)
  /\ SenderCapture

NextTimed ==
  \/ RecordingLoop
  \/ (\E c \in Channels : Worker(c))
  \/ SenderReady
  \/ SenderTick
  \/ TimedCapture
  \/ TimedTick

SpecTimed == InitTimed /\ [][NextTimed]_vars

\* ------------------------------------------------- the fair specification
\* The "s" command has been given and no other command follows.  What the
\* schedulers guarantee: the event loop runs every task that is ready, so
\* recording_loop takes its next step and a timeout that is due fires; a
\* handler that has its timestamp goes on to the lock and, holding it, to
\* its append; the sender thread runs, its sleep ends, and requests.post
\* returns or raises.  The lock is free for the whole of the sender's sleep:
\* a handler that waits for it gets it.  Nothing makes a source or the
\* service end a session.  The clock stands still: what time does here, the
\* timeouts and the end of the sleep, is in the fairness.
InitSession ==
  /\ InitRest
  /\ timed = FALSE
  /\ running = TRUE
  /\ transcription_buffer = EmptyBuffer
  /\ recording_ready = FALSE
  /\ senderpc = "wait"
  /\ nextText = 1
  /\ everFired = FALSE

NextSession ==
  \/ RecordingLoop
  \/ (\E c \in Channels : Worker(c))
  \/ SenderReady
  \/ SenderTick
  \/ SenderCapture

Fairness ==
  /\ WF_vars(LoopTest) /\ WF_vars(LoopLaunch) /\ WF_vars(LoopJoin)
  /\ WF_vars(LoopSleep) /\ WF_vars(LoopTimeout)
  /\ \A c \in Channels : SF_vars(HandlerLock(c)) /\ WF_vars(HandlerAppend(c))
  /\ WF_vars(SenderReady) /\ SF_vars(SenderCapture) /\ WF_vars(SenderTick)

SpecFair == InitSession /\ [][NextSession]_vars /\ Fairness

\* ------------------------------------------- the specification of one tick
\* Lines 310-361 as a function of what the tick finds in the buffer.  The
\* timestamps are readings of datetime.now(), the local wall clock, which can
\* be set back between two readings: a list need not be in ascending order.
MaxInput == WINDOW_TURNS + MaxExtra

Patterns == {"ascending", "descending", "scattered", "subsecond"}

\* the reading of the clock for the k-th fragment of an input
Stamp(p, k) ==
  CASE p = "ascending"  -> [sec |-> k, micro |-> 0]
    [] p = "descending" -> [sec |-> MaxInput + 1 - k, micro |-> 0]
    [] p = "scattered"  -> [sec |-> (k * 5) % 7, micro |-> 0]
    [] p = "subsecond"  -> [sec |-> k \div 4,
                            micro |-> IF k % 2 = 1 THEN 0 ELSE HALF]

Entry(t, k) == [timestamp |-> Isoformat(t), text |-> k]

\* n fragments, the first m of them from the mic
InputBuffer(p, m, n) ==
  [c \in Channels |->
     IF c = "mic" THEN [i \in 1..m |-> Entry(Stamp(p, i), i)]
                  ELSE [i \in 1..(n - m) |-> Entry(Stamp(p, m + i), m + i)]]

\* mic [10, 30, 20] and system [15, 25]
ExampleBuffer ==
  [c \in Channels |->
     IF c = "mic"
       THEN <<Entry([sec |-> 10, micro |-> 0], 1),
              Entry([sec |-> 30, micro |-> 0], 2),
              Entry([sec |-> 20, micro |-> 0], 3)>>
       ELSE <<Entry([sec |-> 15, micro |-> 0], 4),
              Entry([sec |-> 25, micro |-> 0], 5)>>]

InputBuffers ==
  {ExampleBuffer} \cup
  UNION {{InputBuffer(p, m, n) : m \in 0..n, p \in Patterns} : n \in 0..MaxInput}

\* the sender is in its sleep, the gate has fired, the buffer holds an input
InitWindow ==
  /\ InitRest
  /\ timed = FALSE
  /\ running = TRUE
  /\ transcription_buffer \in InputBuffers
  /\ recording_ready = TRUE
  /\ senderpc = "sleep"
  /\ nextText = 1
  /\ everFired = TRUE

NextWindow == SenderCapture \/ SenderTick

SpecWindow == InitWindow /\ [][NextWindow]_vars

\* ------------------------------------------------------ properties: buffer
\* the texts whose append has released the lock
Appended ==
  {t \in TextIds : t < nextText /\ \A c \in Channels : pending[c].text # t}

\* C1: whatever the interleaving of the appends of both handlers with the
\* ticks, every appended fragment is returned by exactly one drain: by none
\* while it is still in the buffer, by one once a tick has emptied the buffer
\* after it, never by two; and a fragment appended after a tick took the lock
\* is not in that tick's result but stays in the buffer for a later one.
C1_ExactlyOneDrain ==
  /\ \A t \in TextIds : drainCount[t] <= 1
  /\ \A t \in TextIds \ Appended : drainCount[t] = 0
  /\ \A t \in Appended :
       IF t \in BufferTexts(transcription_buffer)
         THEN drainCount[t] = 1 <=> (senderpc = "clear" /\ t \notin sinceLock)
         ELSE drainCount[t] = 1
  /\ senderpc \in {"clear", "decide", "post"} =>
       sinceLock \cap Texts(all_transcriptions) = {}
  /\ sinceLock \subseteq BufferTexts(transcription_buffer)

\* one fragment has been drained, and a fragment of the other channel was
\* appended after that drain
C1_Witness ==
  /\ senderpc = "decide"
  /\ Len(all_transcriptions) = 1
  /\ \E c \in Channels :
       /\ Len(transcription_buffer[c]) = 1
       /\ Speaker(c) # all_transcriptions[1].speaker

\* ------------------------------------------------------- properties: gate
\* C2: in one session the gate goes from un-fired to fired at most once, and
\* whenever it is fired both channels have sent their first chunk.
C2_GateOncePerSession ==
  /\ fireCount <= 1
  /\ recording_ready => \A c \in Channels : streams_ready[c]

\* the gate has fired in a session whose two workers are streaming, and a
\* window has been handed over
C2_Witness ==
  /\ fireCount = 1
  /\ recording_ready
  /\ sent # <<>>
  /\ looppc = "await"
  /\ \A c \in Channels : wpc[c] = "run" /\ writepc[c] = "more"

\* C3: before the gate has fired for the first time the sender has made no
\* tick: it has not taken the lock, drained nothing, delivered nothing and
\* not raised the window counter.
C3_NoTickBeforeGate ==
  ~everFired =>
    /\ senderpc = "wait"
    /\ transcription_lock # "sender"
    /\ \A t \in TextIds : drainCount[t] = 0
    /\ sent = <<>>
    /\ window_counter = 0

\* fragments of one channel wait in the buffer while the gate has not fired
C3_Witness ==
  /\ ~everFired
  /\ senderpc = "wait"
  /\ BufferTexts(transcription_buffer) = TextIds

\* ----------------------------------------------------- properties: sender
\* C7: a tick that found both lists empty hands nothing to the delivery
\* sink and leaves the window counter as it is.
C7_EmptyDrainNoDelivery ==
  [][(senderpc \in {"clear", "decide"} /\ all_transcriptions = <<>>) =>
       /\ window_counter' = window_counter
       /\ sent' = sent
       /\ senderpc' # "post"]_vars

\* a tick that found nothing has ended, after a window had been delivered
C7_Witness ==
  /\ senderpc = "sleep"
  /\ all_transcriptions = <<>>
  /\ sent # <<>>

\* C8: the payloads handed to the sink carry the window numbers 1, 2, 3, ...
\* in order and all the same call_id; the counter is the number of payloads
\* handed over, rises by one with each, and never falls or is reset,
\* whatever sessions start and end in between.
C8_WindowNumbers ==
  /\ [](/\ window_counter = Len(sent)
        /\ \A i \in 1..Len(sent) :
             /\ sent[i].window_num = i
             /\ sent[i].call_id = CALL_ID
             /\ sent[i].turns # <<>>)
  /\ [][\/ window_counter' = window_counter /\ sent' = sent
        \/ /\ window_counter' = window_counter + 1
           /\ Len(sent') = Len(sent) + 1
           /\ SubSeq(sent', 1, Len(sent)) = sent]_vars

\* a second window is in flight while a new session has reset the gate
C8_Witness ==
  /\ Len(sent) = 2
  /\ senderpc = "post"
  /\ ~recording_ready
  /\ looppc = "await"

\* no fragment is in two payloads
NoRedelivery ==
  \A i \in 1..Len(sent) : \A j \in (i + 1)..Len(sent) :
    Texts(sent[i].turns) \cap Texts(sent[j].turns) = {}

\* C9: when a delivery fails (an exception, or a status other than 200) the
\* counter keeps its value, the buffer and the payloads are left as they
\* are, no fragment is delivered in two windows, and the sender goes on to
\* its next sleep and tick.
C9_FailureKeepsCounter ==
  /\ []NoRedelivery
  /\ [][(senderpc = "post" /\ senderpc' # "post" /\ Failed(response')) =>
         /\ window_counter' = window_counter
         /\ transcription_buffer' = transcription_buffer
         /\ sent' = sent
         /\ senderpc' = "sleep"]_vars

\* after a failed delivery a later tick has handed over the next window
C9_Witness ==
  /\ Failed(response)
  /\ senderpc = "post"
  /\ Len(sent) = 2

\* ------------------------------------------------- properties: supervisor
\* the position recording_loop goes to from where it is
LoopSuccessor ==
  CASE looppc = "top" ->
         IF stop THEN "done" ELSE IF running THEN "reset" ELSE "sleep"
    [] looppc = "reset" -> "await"
    [] looppc = "await" ->
         IF \A c \in Channels : wpc[c] = "done" THEN "sleep" ELSE "cancel"
    [] looppc = "cancel" -> "sleep"
    [] looppc = "sleep" -> "top"
    [] looppc = "done" -> "done"

\* C10: recording_loop is left only when stop is set; however a session ends
\* (a worker's failure or timeout, the timeout of the gather) the loop goes
\* on to its sleep and test, and from the test, with running set and stop
\* not, to the start of a further session.
C10_LoopExitsOnlyOnStop ==
  /\ [](looppc = "done" => stop)
  /\ [][looppc' # looppc => looppc' = LoopSuccessor]_vars

\* a further session is being started after one in which the gate had fired
C10_Witness ==
  /\ everFired
  /\ ~recording_ready
  /\ looppc = "await"
  /\ ~stop
  /\ \A c \in Channels : wpc[c] = "init"

\* ------------------------------------------------------- properties: time
\* C4 as claimed: no fragment is in the buffer for longer than one dispatch
\* period after its append.
C4_WithinOnePeriod ==
  \A c \in Channels : \A i \in 1..Len(transcription_buffer[c]) :
    Elapsed(InstantOf(transcription_buffer[c][i].timestamp), now)
      <= REC_SECONDS * MICROS

\* C4 as amended: a fragment stays in the buffer until the first tick after
\* its append and no longer; a fragment appended while the sender is in its
\* period sleep has been there for at most one dispatch period.
C4_UntilNextTick ==
  /\ senderpc # "clear" => BufferTexts(transcription_buffer) \subseteq sinceLock
  /\ senderpc = "sleep" =>
       \A c \in Channels : \A i \in 1..Len(transcription_buffer[c]) :
         LET at == InstantOf(transcription_buffer[c][i].timestamp)
         IN ~Before(at, slept) => Elapsed(at, now) <= REC_SECONDS * MICROS

\* a fragment appended during the sender's sleep is one period old
C4_Witness ==
  /\ senderpc = "sleep"
  /\ \E c \in Channels : \E i \in 1..Len(transcription_buffer[c]) :
       LET at == InstantOf(transcription_buffer[c][i].timestamp)
       IN ~Before(at, slept) /\ Elapsed(at, now) = REC_SECONDS * MICROS

\* --------------------------------------------------- properties: sessions
\* a worker of the current session has not finished
Active(c) == wpc[c] \in {"init", "run"}

\* a session has just been launched: both workers are in their setup, no
\* channel is marked ready and the gate has not fired
FreshSession ==
  /\ looppc = "await"
  /\ \A c \in Channels : wpc[c] = "init" /\ ~streams_ready[c]
  /\ ~recording_ready

\* C11: a test of the loop that finds running clear (and stop clear) starts
\* no session and does not end the loop: the supervisor goes to its sleep
\* and tests again; a session is only ever started from a test that found
\* running set, and it begins with both readiness flags false and the gate
\* un-fired.
C11_PausedPollsResumeFresh ==
  [][/\ (looppc = "top" /\ ~running /\ ~stop /\ looppc' # "top")
          => (looppc' = "sleep" /\ wpc' = wpc)
     /\ (looppc # "reset" /\ looppc' = "reset")
          => (looppc = "top" /\ running /\ ~stop)
     /\ (looppc # "await" /\ looppc' = "await") => FreshSession']_vars

\* paused after a session that fired the gate: the supervisor is in its
\* sleep between two tests, no worker exists, the gate is still fired
C11_Witness ==
  /\ ~running /\ ~stop
  /\ looppc = "sleep"
  /\ recording_ready
  /\ \A c \in Channels : wpc[c] = "off"

\* C21: clearing running while a session is active does not end the
\* session.  The step of the pause changes nothing of the supervisor, the
\* workers, the buffer or the dispatcher; while running is clear the
\* supervisor leaves its wait for the session only when both workers have
\* finished or its timeout has expired, and a worker is ended only from its
\* session or by that timeout; the pause shows only at the test at the top
\* of the loop.
C21_PauseKeepsSession ==
  [][/\ (running /\ ~running')
          => /\ looppc' = looppc /\ wpc' = wpc
             /\ writepc' = writepc /\ handlerpc' = handlerpc
             /\ transcription_buffer' = transcription_buffer
             /\ senderpc' = senderpc /\ sent' = sent
     /\ (~running /\ looppc = "await" /\ looppc' # "await")
          => \/ looppc' = "cancel"
             \/ looppc' = "sleep" /\ \A c \in Channels : wpc[c] = "done"
     /\ (~running /\ looppc = "await" /\ looppc' = "await")
          => \A c \in Channels :
               (Active(c) /\ ~Active(c)') => (wpc'[c] = "done")]_vars

\* paused in the middle of a session: a handler is appending a fragment and
\* the dispatcher is delivering a window
C21_Witness ==
  /\ ~running /\ ~stop
  /\ looppc = "await"
  /\ \A c \in Channels : wpc[c] = "run"
  /\ \E c \in Channels : handlerpc[c] = "locked"
  /\ senderpc = "post"

\* a fragment has been read by a tick of the sender
Drained(t) == drainCount[t] > 0

\* C22: once both channels have observed their first chunk in some session,
\* the dispatcher eventually starts ticking, also when the supervisor has
\* reset the gate in between; and from then on every fragment that is in
\* the buffer is eventually drained.
C22_GateThenEveryFragmentDrained ==
  /\ everFired ~> (senderpc # "wait")
  /\ \A t \in TextIds :
       (everFired /\ t \in BufferTexts(transcription_buffer)) ~> Drained(t)

\* the gate has fired and has been reset since; the dispatcher, ticking,
\* holds the lock and has read a fragment of the buffer
C22_Witness ==
  /\ everFired
  /\ ~recording_ready
  /\ senderpc = "clear"
  /\ all_transcriptions # <<>>
  /\ \E t \in TextIds : Drained(t)

\* C12: when the session timeout of one worker expires while the other
\* worker is healthy, both workers' sessions come to an end and the
\* supervisor, running being set and stop not, starts a fresh session with
\* both readiness flags false and the gate un-fired.
C12_TimeoutRestartsSession == timedOut ~> FreshSession

\* one worker has timed out and the other is still healthy
C12_Witness ==
  /\ timedOut
  /\ \E c \in Channels : wpc[c] = "done"
  /\ \E c \in Channels : Healthy(c) /\ writepc[c] = "more"

\* C13: when stop is signalled during an active session the supervisor
\* cancels both workers' tasks, so that the session has ended because of the
\* stop by the time the program ends: the process never exits with a worker
\* of the session still active.
C13_StopCancelsSession == exited => \A c \in Channels : ~Active(c)

\* C14: on every way a worker's session ends, its cleanup has run by the
\* time the session is finished: the audio source is closed (its process
\* is no longer running) and the end of the stream has been signalled to
\* the service.
C14_CleanupOnEveryExit ==
  \A c \in Channels :
    wpc[c] = "done" => (proc[c] = "none" /\ input_stream[c] # "open")

\* C17: when the audio source of a channel terminates abnormally (or just
\* ends), only that channel's send path ends: the step raises nothing to
\* the supervisor and ends no worker, and the other channel's send path,
\* handler and list are as they were, so that it goes on sending and
\* appending.
C17_SourceFailureIsLocal ==
  [][\A c \in Channels :
       (writepc[c] \in {"first", "more"} /\ writepc'[c] \in {"failed", "ended"})
         => /\ looppc' = looppc
            /\ wpc' = wpc
            /\ handlerpc' = handlerpc
            /\ transcription_buffer' = transcription_buffer
            /\ \A o \in Channels \ {c} : writepc'[o] = writepc[o]]_vars

\* the send path of one channel has failed; the other channel is still
\* sending audio and its handler is appending a fragment it has received
\* since
C17_Witness ==
  \E c \in Channels : \E o \in Channels \ {c} :
    /\ writepc[c] = "failed"
    /\ wpc[o] = "run" /\ writepc[o] = "more"
    /\ handlerpc[o] = "locked"
    /\ looppc = "await"

\* ------------------------------------------------------- properties: lock
\* C15: the lock is held only during an append or a drain, never across a
\* suspension point: the sender holds it only between its read of the lists
\* and their clearing, never in recording_ready.wait(), time.sleep or
\* requests.post; a handler holds it only for its append, never while it or
\* its worker awaits, and a handler that is gone holds nothing.
C15_LockOnlyInCriticalSections ==
  /\ transcription_lock \in Channels \cup {"sender", "free"}
  /\ transcription_lock = "sender" <=> senderpc = "clear"
  /\ \A c \in Channels :
       transcription_lock = c <=> handlerpc[c] = "locked"

\* the sender holds the lock for its drain while a handler, which has a
\* fragment to append, is waiting for it
C15_Witness ==
  /\ transcription_lock = "sender"
  /\ \E c \in Channels : handlerpc[c] = "stamped"
  /\ transcription_buffer # EmptyBuffer

\* ---------------------------------------------------- properties: handler
\* C16: each final result with non-blank text adds exactly one fragment, to
\* the list of its handler's channel; a partial or blank result adds none
\* and the other channel's list is not changed: whenever a list grows, it
\* grows by the one entry of its channel's handler, this is the first
\* fragment of the result the handler is working on, and the other list
\* stays as it is.
C16_OneFragmentPerResult ==
  [][\A c \in Channels :
       Len(transcription_buffer'[c]) > Len(transcription_buffer[c]) =>
         /\ transcription_buffer'[c] =
              Append(transcription_buffer[c], pending[c])
         /\ resultFrags[c] = 0
         /\ \A o \in Channels \ {c} :
              transcription_buffer'[o] = transcription_buffer[o]]_vars

\* C20: the dispatcher is gated once per process only: after the first
\* firing of the gate it never waits for the gate again, it goes on ticking
\* also while the gate is un-fired again or the recording is paused, so that
\* in a later session windows are dispatched before both channels have
\* observed audio.
C20_GatedOncePerProcess ==
  [][senderpc # "wait" => senderpc' # "wait"]_vars

\* a window is being delivered in a later session in which the gate has not
\* fired again and no channel has observed audio yet
C20_Witness ==
  /\ senderpc = "post"
  /\ looppc = "await"
  /\ ~recording_ready
  /\ \A c \in Channels : ~streams_ready[c] /\ Active(c)
  /\ everFired

\* C19: the program never deadlocks on the buffer lock.  A handler that
\* holds the lock is neither cancelled nor timed out while it holds it (its
\* worker and its task go on, and its next step is the release); whoever
\* holds the lock releases it; and every append and every drain that asks
\* for the lock gets it.
C19_NoDeadlockOnLock ==
  /\ [][\A c \in Channels :
          handlerpc[c] = "locked"
            => (wpc'[c] = wpc[c] /\ handlerpc'[c] # "none")]_vars
  /\ (transcription_lock # "free") ~> (transcription_lock = "free")
  /\ \A c \in Channels :
       (handlerpc[c] = "stamped") ~> (handlerpc[c] = "locked")
  /\ (senderpc = "sleep") ~> (senderpc = "clear")

\* a handler holds the lock for its append while the sender's sleep is
\* over and its drain asks for the lock; both workers are in their session
C19_Witness ==
  \E c \in Channels :
    /\ transcription_lock = c
    /\ handlerpc[c] = "locked"
    /\ senderpc = "sleep"
    /\ looppc = "await"
    /\ \A o \in Channels : wpc[o] = "run"

\* ------------------------------------------------------ properties: window
\* C18: every tick leaves both lists empty when it releases the lock; the
\* fragments it has read and cut off (more than WINDOW_TURNS were buffered)
\* are removed with the others and are in no later window: what a tick
\* reads has nothing in common with what the tick before it read.
C18_TickEmptiesBothLists ==
  [][/\ (senderpc = "clear" /\ senderpc' # "clear")
          => (transcription_buffer' = EmptyBuffer
              /\ transcription_lock' = "free")
     /\ (senderpc # "clear" /\ senderpc' = "clear")
          => Texts(all_transcriptions') \cap Texts(all_transcriptions) = {}
    ]_vars

\* a tick has read more than WINDOW_TURNS fragments and cut some off; it
\* has released the lock and both lists are empty
C18_Witness ==
  /\ senderpc = "decide"
  /\ Len(all_transcriptions) > WINDOW_TURNS
  /\ Len(recent_transcriptions) = WINDOW_TURNS
  /\ transcription_buffer = EmptyBuffer
  /\ transcription_lock = "free"

\* the entries a tick has read and not yet cleared from the buffer, as turns
DrainedTurns ==
  UNION {{Turn(c, transcription_buffer[c][i]) :
            i \in 1..Len(transcription_buffer[c])} : c \in Channels}

TurnSet(turns) == {turns[i] : i \in 1..Len(turns)}

\* the turns are in ascending order of the instants of their timestamps
Chronological(turns) ==
  \A i \in 1..Len(turns) : \A j \in (i + 1)..Len(turns) :
    ~Before(InstantOf(turns[j].timestamp), InstantOf(turns[i].timestamp))

\* C5: at every tick the merged sequence holds exactly the fragments of both
\* lists, mic as agent and system as customer, in ascending order of their
\* timestamps across the channels.
C5_MergeAscending ==
  senderpc = "clear" =>
    /\ Len(all_transcriptions) =
         Len(transcription_buffer["mic"]) + Len(transcription_buffer["system"])
    /\ TurnSet(all_transcriptions) = DrainedTurns
    /\ Chronological(all_transcriptions)

\* C6: a window has at most 10 turns; of n > 10 drained fragments it holds
\* the 10 with the greatest timestamps, in ascending order; of n <= 10, all.
C6_LastTenMostRecent ==
  senderpc = "clear" =>
    LET n == Cardinality(DrainedTurns)
        kept == TurnSet(recent_transcriptions)
    IN /\ Len(recent_transcriptions) <= WINDOW_TURNS
       /\ kept \subseteq DrainedTurns
       /\ Cardinality(kept) = Len(recent_transcriptions)
       /\ Len(recent_transcriptions) = IF n > WINDOW_TURNS THEN WINDOW_TURNS ELSE n
       /\ \A k \in kept : \A d \in DrainedTurns \ kept :
            ~Before(InstantOf(k.timestamp), InstantOf(d.timestamp))
       /\ Chronological(recent_transcriptions)

====
